---- MODULE Spec2Model ----
(***************************************************************************)
(* A model of pkg/server/server.go: the protocol multiplexer               *)
(* (grpcHandlerFunc), the lifecycle of the three servers of a Config       *)
(* (Serve, ServeMetrics, ServeAlerts, Shutdown) and the Alertmanager       *)
(* webhook handler installed by ServeAlerts.                               *)
(*                                                                         *)
(* Strings are sequences of tokens (a token is a run of characters), so    *)
(* that strings.Contains and fmt.Sprintf are computed, not assumed.        *)
(***************************************************************************)
EXTENDS Integers, Sequences, FiniteSets, TLC

VARIABLES
    \* ---- Config fields and the Serve goroutine (lifecycle) ----
    proc,               \* the process: "running", "crashed" (panic), "exited" (log.Fatalln)
    EnableHttp,         \* Config.EnableHttp
    ConfigHandler,      \* Config.ConfigHandler, as AnalyzeHandler
    AnalyzeHandler,     \* Config.AnalyzeHandler: "nil", "caller" (given at construction) or "set"
    listener,           \* Config.listener: "nil", "open" or "closed"
    servePc,            \* position of Serve
    serveRet,           \* return value of Serve ("none" while it has not returned)
    accepts,            \* results of the Accept calls of Serve's accept loop, in order
    shutdowns,          \* outcomes of the Shutdown calls, in order
    metricsServer,      \* Config.metricsServer: "nil", "created", "listening", "closed"
    metricsRet,         \* return value of ServeMetrics
    alertmanagerServer, \* Config.alertmanagerServer, as metricsServer
    alertsRet,          \* return value of ServeAlerts
    gwErr,              \* Serve's err after the gateway registrations ("none": no failure)
    inflight,           \* requests accepted by Serve's accept loop and still being handled
    \* ---- one connection served through grpcHandlerFunc ----
    nReqs,              \* requests handled on the connection so far
    last,               \* the request handled last, with the delegates it invoked
    kept,               \* an earlier request of the same connection, with its delegates
    \* ---- the webhook handler of ServeAlerts ----
    calls,              \* per webhook call: the handler's locals and its response
    analyzeCalls,       \* the calls made to s.AnalyzeHandler.Analyze, in order
    \* ---- the handler of the metrics server ----
    mReqs,              \* requests handled by the metrics handler so far
    mLast               \* the request handled last, with its response

lifeVars == <<proc, EnableHttp, ConfigHandler, AnalyzeHandler, listener, servePc,
              serveRet, accepts, shutdowns, metricsServer, metricsRet,
              alertmanagerServer, alertsRet, gwErr, inflight>>
muxVars == <<nReqs, last, kept>>
hookVars == <<calls, analyzeCalls>>
metVars == <<mReqs, mLast>>
vars == <<lifeVars, muxVars, hookVars, metVars>>

---------------------------------------------------------------------------
\* Bounds of the model.
MaxLen == 3        \* longest Content-Type value, in tokens
MaxReqs == 3       \* requests on one connection
MaxConns == 2      \* connections accepted by Serve's accept loop
MaxShutdowns == 2  \* calls of Shutdown
MaxAlerts == 2     \* alerts in one webhook body
MaxResults == 2    \* results in one AnalyzeResponse

---------------------------------------------------------------------------
\* Strings.

Tokens == {"application/", "grpc"}

\* All strings of at most n tokens.
RECURSIVE StringsUpTo(_)
StringsUpTo(n) ==
    IF n = 0 THEN {<<>>}
    ELSE LET S == StringsUpTo(n - 1)
         IN  S \cup {Append(s, t) : s \in {x \in S : Len(x) = n - 1}, t \in Tokens}

\* strings.Index(s, substr): the index of the first instance of substr in s,
\* or -1; from position i on.
RECURSIVE IndexFrom(_, _, _)
IndexFrom(s, substr, i) ==
    IF i + Len(substr) > Len(s) THEN -1
    ELSE IF SubSeq(s, i + 1, i + Len(substr)) = substr THEN i
    ELSE IndexFrom(s, substr, i + 1)

\* strings.Contains(s, substr)
Contains(s, substr) == IndexFrom(s, substr, 0) >= 0

---------------------------------------------------------------------------
\* grpcHandlerFunc

\* The literal "application/grpc" of the handler.
GrpcMarker == <<"application/", "grpc">>

ProtoMajors == {1, 2}

\* r.Header: a map from header name to the list of its values.
Headers ==
    {<<>>} \cup {[k \in {"Content-Type"} |-> <<v>>] : v \in StringsUpTo(MaxLen)}

Requests == [ProtoMajor : ProtoMajors, Header : Headers]

\* http.Header.Get(key): the first value of the key, "" when there is none.
HeaderGet(h, key) ==
    IF key \in DOMAIN h /\ Len(h[key]) > 0 THEN h[key][1] ELSE <<>>

\* A variant of the handler that stays with the RPC dispatcher once a request
\* of the connection has been routed to it.
StickyGrpcHandlerFunc(r) ==
    IF \/ r.ProtoMajor = 2 /\ Contains(HeaderGet(r.Header, "Content-Type"), GrpcMarker)
       \/ last.handled /\ last.invoked = <<"grpcServer">>
    THEN <<"grpcServer">>
    ELSE <<"otherHandler">>

\* A variant of the handler that looks at the Content-Type only.
AnyProtoGrpcHandlerFunc(r) ==
    IF Contains(HeaderGet(r.Header, "Content-Type"), GrpcMarker)
    THEN <<"grpcServer">>
    ELSE <<"otherHandler">>

\* The handler returned by grpcHandlerFunc, as the sequence of the ServeHTTP
\* calls it makes on its two delegates for request r.
grpcHandlerFunc(r) ==
    IF r.ProtoMajor = 2 /\ Contains(HeaderGet(r.Header, "Content-Type"), GrpcMarker)
    THEN <<"grpcServer">>
    ELSE <<"otherHandler">>

NoRequest == [handled |-> FALSE, req |-> [ProtoMajor |-> 1, Header |-> <<>>],
              invoked |-> <<>>]

\* The h2c server hands one more request of the connection to the handler.
\* kept remembers any one of the earlier requests.
MuxServeHTTP ==
    /\ proc = "running" /\ servePc = "httpServe" /\ EnableHttp
    /\ nReqs < MaxReqs
    /\ \E r \in Requests :
         last' = [handled |-> TRUE, req |-> r, invoked |-> grpcHandlerFunc(r)]
    /\ kept' \in (IF last.handled THEN {kept, last} ELSE {kept})
    /\ nReqs' = nReqs + 1
    /\ UNCHANGED <<lifeVars, hookVars, metVars>>

\* The connection ends and the next one starts.
MuxNextConn ==
    /\ proc = "running" /\ servePc = "httpServe" /\ EnableHttp
    /\ nReqs > 0
    /\ nReqs' = 0 /\ last' = NoRequest /\ kept' = NoRequest
    /\ UNCHANGED <<lifeVars, hookVars, metVars>>

---------------------------------------------------------------------------
\* Config.Serve, Config.Shutdown, Config.ServeMetrics, Config.ServeAlerts

\* errors.Is(err, http.ErrServerClosed)
IsErrServerClosed(err) == err = "ErrServerClosed"

\* net.Listener.Accept on a listener in state lis: a closed listener fails
\* with "use of closed network connection" (net.ErrClosed); an open one
\* yields a connection or fails with some other, non-temporary error.
AcceptResults(lis) ==
    IF lis = "closed" THEN {"ErrNetClosed"} ELSE {"conn", "ErrAccept"}

NumConns == Cardinality({i \in 1..Len(accepts) : accepts[i] = "conn"})

\* A variant of Serve that replaces the two handlers before it binds.
ServeListenHandlersFirst ==
    /\ proc = "running" /\ servePc = "idle"
    /\ ConfigHandler' = "set"
    /\ AnalyzeHandler' = "set"
    /\ \E bound \in BOOLEAN :
         IF bound
         THEN /\ listener' = "open"
              /\ servePc' = IF EnableHttp THEN "registerConfig" ELSE "grpcServe"
              /\ UNCHANGED serveRet
         ELSE /\ serveRet' = "ErrBind"
              /\ servePc' = "returned"
              /\ UNCHANGED listener
    /\ UNCHANGED <<proc, EnableHttp, accepts, shutdowns, metricsServer, metricsRet,
                   alertmanagerServer, alertsRet, gwErr, inflight, muxVars, hookVars,
                   metVars>>

\* Serve, lines 95-113: bind the port; on success set the two handlers and
\* the listener field and build the RPC dispatcher.
ServeListen ==
    /\ proc = "running" /\ servePc = "idle"
    /\ \E bound \in BOOLEAN :
         IF bound
         THEN /\ ConfigHandler' = "set"
              /\ AnalyzeHandler' = "set"
              /\ listener' = "open"
              /\ servePc' = IF EnableHttp THEN "registerConfig" ELSE "grpcServe"
              /\ UNCHANGED serveRet
         ELSE /\ serveRet' = "ErrBind"
              /\ servePc' = "returned"
              /\ UNCHANGED <<ConfigHandler, AnalyzeHandler, listener>>
    /\ UNCHANGED <<proc, EnableHttp, accepts, shutdowns, metricsServer, metricsRet,
                   alertmanagerServer, alertsRet, gwErr, inflight, muxVars, hookVars, metVars>>

\* Serve, lines 118-122: register the configuration service with the gateway;
\* log.Fatalln ends the process when it fails.
RegisterConfigGateway ==
    /\ proc = "running" /\ servePc = "registerConfig"
    /\ \E ok \in BOOLEAN :
         IF ok THEN servePc' = "registerAnalyzer" /\ UNCHANGED <<proc, gwErr>>
               ELSE proc' = "exited" /\ gwErr' = "ErrRegister" /\ UNCHANGED servePc
    /\ UNCHANGED <<EnableHttp, ConfigHandler, AnalyzeHandler, listener, serveRet,
                   accepts, shutdowns, metricsServer, metricsRet, alertmanagerServer,
                   alertsRet, inflight, muxVars, hookVars, metVars>>

\* A variant of the second registration that hands the failure back to the
\* caller of Serve.
RegisterAnalyzerGatewayReturnsError ==
    /\ proc = "running" /\ servePc = "registerAnalyzer"
    /\ \E ok \in BOOLEAN :
         IF ok THEN servePc' = "httpServe" /\ UNCHANGED <<gwErr, serveRet>>
               ELSE /\ gwErr' = "ErrRegister" /\ serveRet' = "ErrRegister"
                    /\ servePc' = "returned"
    /\ UNCHANGED <<proc, EnableHttp, ConfigHandler, AnalyzeHandler, listener,
                   accepts, shutdowns, metricsServer, metricsRet, alertmanagerServer,
                   alertsRet, inflight, muxVars, hookVars, metVars>>

\* Serve, lines 123-127: the same for the analysis service.
RegisterAnalyzerGateway ==
    /\ proc = "running" /\ servePc = "registerAnalyzer"
    /\ \E ok \in BOOLEAN :
         IF ok THEN servePc' = "httpServe" /\ UNCHANGED <<proc, gwErr>>
               ELSE proc' = "exited" /\ gwErr' = "ErrRegister" /\ UNCHANGED servePc
    /\ UNCHANGED <<EnableHttp, ConfigHandler, AnalyzeHandler, listener, serveRet,
                   accepts, shutdowns, metricsServer, metricsRet, alertmanagerServer,
                   alertsRet, inflight, muxVars, hookVars, metVars>>

\* What Serve returns when srv.Serve(lis) ends with err (lines 134-136):
\* every error, http.Server.Serve never returning nil.
HttpServeReturn(err) == err

\* What Serve returns when grpcServer.Serve(lis) ends with err (lines 138-145).
GrpcServeReturn(err) ==
    IF err # "nil" /\ ~IsErrServerClosed(err) THEN err ELSE "nil"

\* One round of an accept loop on s.listener: a connection is accepted and
\* handed to its own goroutine, or Accept fails, the loop ends, the serving
\* library closes the listener it was given and Serve returns; rest tells
\* the REST-gateway branch (srv.Serve) from the RPC-only one.
AcceptLoop(rest) ==
    \E res \in AcceptResults(listener) :
      /\ res = "conn" => NumConns < MaxConns
      /\ accepts' = Append(accepts, res)
      /\ IF res = "conn"
         THEN /\ inflight' = inflight + 1
              /\ UNCHANGED <<listener, servePc, serveRet>>
         ELSE /\ UNCHANGED inflight
              /\ listener' = "closed"
              /\ servePc' = "returned"
              /\ serveRet' = IF rest THEN HttpServeReturn(res)
                                      ELSE GrpcServeReturn(res)

\* Serve, line 134: srv.Serve(lis) behind the multiplexer.
HttpAccept ==
    /\ proc = "running" /\ servePc = "httpServe"
    /\ AcceptLoop(TRUE)
    /\ UNCHANGED <<proc, EnableHttp, ConfigHandler, AnalyzeHandler, shutdowns,
                   metricsServer, metricsRet, alertmanagerServer, alertsRet,
                   gwErr, muxVars, hookVars, metVars>>

\* Serve, line 138: grpcServer.Serve(lis).
GrpcAccept ==
    /\ proc = "running" /\ servePc = "grpcServe"
    /\ AcceptLoop(FALSE)
    /\ UNCHANGED <<proc, EnableHttp, ConfigHandler, AnalyzeHandler, shutdowns,
                   metricsServer, metricsRet, alertmanagerServer, alertsRet,
                   gwErr, muxVars, hookVars, metVars>>

\* A variant of Shutdown that reports a closed listener by panicking.
ShutdownPanicsWhenClosed(lis) ==
    IF lis = "open" THEN [ret |-> "nil", lis |-> "closed", panic |-> FALSE]
    ELSE [ret |-> "none", lis |-> lis, panic |-> TRUE]

\* s.listener.Close() on the listener field in state lis: a nil interface
\* panics, an open listener is closed, a closed one reports net.ErrClosed.
ListenerClose(lis) ==
    IF lis = "nil" THEN [ret |-> "none", lis |-> lis, panic |-> TRUE]
    ELSE IF lis = "open" THEN [ret |-> "nil", lis |-> "closed", panic |-> FALSE]
    ELSE [ret |-> "ErrNetClosed", lis |-> "closed", panic |-> FALSE]

\* A variant of Shutdown that also ends the requests in flight.
ShutdownCancelsInflight ==
    /\ proc = "running"
    /\ Len(shutdowns) < MaxShutdowns
    /\ LET c == ListenerClose(listener)
       IN  /\ listener' = c.lis
           /\ shutdowns' = Append(shutdowns, IF c.panic THEN "panic" ELSE c.ret)
           /\ proc' = IF c.panic THEN "crashed" ELSE proc
    /\ inflight' = 0
    /\ UNCHANGED <<EnableHttp, ConfigHandler, AnalyzeHandler, servePc, serveRet,
                   accepts, metricsServer, metricsRet, alertmanagerServer, alertsRet,
                   gwErr, muxVars, hookVars, metVars>>

\* Shutdown, lines 78-80. It touches nothing but s.listener.
Shutdown ==
    /\ proc = "running"
    /\ Len(shutdowns) < MaxShutdowns
    /\ LET c == ListenerClose(listener)
       IN  /\ listener' = c.lis
           /\ shutdowns' = Append(shutdowns, IF c.panic THEN "panic" ELSE c.ret)
           /\ proc' = IF c.panic THEN "crashed" ELSE proc
    /\ UNCHANGED <<EnableHttp, ConfigHandler, AnalyzeHandler, servePc, serveRet,
                   accepts, metricsServer, metricsRet, alertmanagerServer, alertsRet,
                   gwErr, inflight, muxVars, hookVars, metVars>>

\* ServeMetrics, lines 149-163: the server and its handler are stored.
ServeMetricsStart ==
    /\ proc = "running" /\ metricsServer = "nil"
    /\ metricsServer' = "created"
    /\ UNCHANGED <<proc, EnableHttp, ConfigHandler, AnalyzeHandler, listener, servePc,
                   serveRet, accepts, shutdowns, metricsRet, alertmanagerServer,
                   alertsRet, gwErr, inflight, muxVars, hookVars, metVars>>

\* What an auxiliary server's Serve function returns when ListenAndServe ends
\* with err (lines 164-167 and 217-220).
AuxReturn(err) ==
    IF err # "nil" /\ ~IsErrServerClosed(err) THEN err ELSE "nil"

\* ServeMetrics, line 164: ListenAndServe binds the metrics port.
MetricsListenAndServe ==
    /\ proc = "running" /\ metricsServer = "created" /\ metricsRet = "none"
    /\ \E bound \in BOOLEAN :
         IF bound THEN metricsServer' = "listening" /\ UNCHANGED metricsRet
                  ELSE metricsRet' = AuxReturn("ErrBind") /\ UNCHANGED metricsServer
    /\ UNCHANGED <<proc, EnableHttp, ConfigHandler, AnalyzeHandler, listener, servePc,
                   serveRet, accepts, shutdowns, alertmanagerServer, alertsRet,
                   gwErr, inflight, muxVars, hookVars, metVars>>

\* ServeMetrics, line 164: the accept loop of the metrics server ends with an
\* error of its listener. Nothing in the package closes this server.
MetricsAcceptError ==
    /\ proc = "running" /\ metricsServer = "listening"
    /\ metricsServer' = "closed"
    /\ metricsRet' = AuxReturn("ErrAccept")
    /\ UNCHANGED <<proc, EnableHttp, ConfigHandler, AnalyzeHandler, listener, servePc,
                   serveRet, accepts, shutdowns, alertmanagerServer, alertsRet,
                   gwErr, inflight, muxVars, hookVars, metVars>>

\* ServeAlerts, lines 171-216: the server and its handler are stored.
ServeAlertsStart ==
    /\ proc = "running" /\ alertmanagerServer = "nil"
    /\ alertmanagerServer' = "created"
    /\ UNCHANGED <<proc, EnableHttp, ConfigHandler, AnalyzeHandler, listener, servePc,
                   serveRet, accepts, shutdowns, metricsServer, metricsRet, alertsRet,
                   gwErr, inflight, muxVars, hookVars, metVars>>

\* ServeAlerts, line 217: ListenAndServe binds the webhook port.
AlertsListenAndServe ==
    /\ proc = "running" /\ alertmanagerServer = "created" /\ alertsRet = "none"
    /\ \E bound \in BOOLEAN :
         IF bound THEN alertmanagerServer' = "listening" /\ UNCHANGED alertsRet
                  ELSE alertsRet' = AuxReturn("ErrBind") /\ UNCHANGED alertmanagerServer
    /\ UNCHANGED <<proc, EnableHttp, ConfigHandler, AnalyzeHandler, listener, servePc,
                   serveRet, accepts, shutdowns, metricsServer, metricsRet,
                   gwErr, inflight, muxVars, hookVars, metVars>>

\* ServeAlerts, line 217: the accept loop of the webhook server ends with an
\* error of its listener. Nothing in the package closes this server.
AlertsAcceptError ==
    /\ proc = "running" /\ alertmanagerServer = "listening"
    /\ alertmanagerServer' = "closed"
    /\ alertsRet' = AuxReturn("ErrAccept")
    /\ UNCHANGED <<proc, EnableHttp, ConfigHandler, AnalyzeHandler, listener, servePc,
                   serveRet, accepts, shutdowns, metricsServer, metricsRet,
                   gwErr, inflight, muxVars, hookVars, metVars>>

\* A request accepted by Serve's accept loop has been answered. The handlers
\* run on goroutines of their own and outlive the accept loop.
HandlerDone ==
    /\ proc = "running" /\ inflight > 0
    /\ inflight' = inflight - 1
    /\ UNCHANGED <<proc, EnableHttp, ConfigHandler, AnalyzeHandler, listener, servePc,
                   serveRet, accepts, shutdowns, metricsServer, metricsRet,
                   alertmanagerServer, alertsRet, gwErr, muxVars, hookVars, metVars>>

---------------------------------------------------------------------------
\* The handler of the metrics server (lines 154-163).

Methods == {"GET", "POST"}
Paths == {"/healthz", "/metrics", "/unknown", "/", "/healthz/", "/Metrics"}
MetricsRequests == [Method : Methods, Path : Paths]

\* A variant of the handler that answers the liveness path to GET only.
MetricsHandlerGetOnly(r) ==
    IF r.Path = "/healthz" /\ r.Method = "GET"
    THEN [status |-> 200, body |-> <<>>, delegate |-> "none"]
    ELSE IF r.Path = "/metrics"
    THEN [status |-> 0, body |-> <<>>, delegate |-> "promhttp"]
    ELSE [status |-> 404, body |-> <<>>, delegate |-> "none"]

\* The switch on r.URL.Path: the status written with WriteHeader, the body
\* written (none) and the handler the request is passed on to.
MetricsHandler(r) ==
    IF r.Path = "/healthz"
    THEN [status |-> 200, body |-> <<>>, delegate |-> "none"]
    ELSE IF r.Path = "/metrics"
    THEN [status |-> 0, body |-> <<>>, delegate |-> "promhttp"]
    ELSE [status |-> 404, body |-> <<>>, delegate |-> "none"]

NoMetricsRequest ==
    [handled |-> FALSE, req |-> [Method |-> "GET", Path |-> "/"],
     resp |-> [status |-> 0, body |-> <<>>, delegate |-> "none"]]

\* The metrics server hands a request to its handler.
MetricsServeHTTP ==
    /\ proc = "running" /\ metricsServer = "listening"
    /\ mReqs < MaxReqs
    /\ \E r \in MetricsRequests :
         mLast' = [handled |-> TRUE, req |-> r, resp |-> MetricsHandler(r)]
    /\ mReqs' = mReqs + 1
    /\ UNCHANGED <<lifeVars, muxVars, hookVars>>

---------------------------------------------------------------------------
\* The lifecycle specification: a Config as constructed, on which Serve,
\* ServeMetrics and ServeAlerts are started, each at most once and each on
\* its own goroutine, and Shutdown is called from any other goroutine.

NoCalls == <<>>

Init ==
    /\ proc = "running"
    /\ EnableHttp \in BOOLEAN
    /\ ConfigHandler \in {"nil", "caller"} /\ AnalyzeHandler = ConfigHandler
    /\ listener = "nil"
    /\ servePc = "idle" /\ serveRet = "none"
    /\ accepts = <<>> /\ shutdowns = <<>>
    /\ metricsServer = "nil" /\ metricsRet = "none"
    /\ alertmanagerServer = "nil" /\ alertsRet = "none"
    /\ gwErr = "none" /\ inflight = 0
    /\ nReqs = 0 /\ last = NoRequest /\ kept = NoRequest
    /\ calls = NoCalls /\ analyzeCalls = <<>>
    /\ mReqs = 0 /\ mLast = NoMetricsRequest

Next ==
    \/ ServeListen
    \/ RegisterConfigGateway
    \/ RegisterAnalyzerGateway
    \/ HttpAccept
    \/ GrpcAccept
    \/ Shutdown
    \/ ServeMetricsStart
    \/ MetricsListenAndServe
    \/ MetricsAcceptError
    \/ ServeAlertsStart
    \/ AlertsListenAndServe
    \/ AlertsAcceptError
    \/ HandlerDone

Spec == Init /\ [][Next]_vars

\* The lifecycle together with the requests of the metrics server.
NextMetrics == Next \/ MetricsServeHTTP

SpecMetrics == Init /\ [][NextMetrics]_vars

---------------------------------------------------------------------------
\* The multiplexer specification: Serve has reached srv.Serve in REST-gateway
\* mode and the h2c server feeds the requests of a connection to the handler.

InitMux ==
    /\ proc = "running"
    /\ EnableHttp = TRUE
    /\ ConfigHandler = "set" /\ AnalyzeHandler = "set"
    /\ listener = "open"
    /\ servePc = "httpServe" /\ serveRet = "none"
    /\ accepts = <<"conn">> /\ shutdowns = <<>>
    /\ metricsServer = "nil" /\ metricsRet = "none"
    /\ alertmanagerServer = "nil" /\ alertsRet = "none"
    /\ gwErr = "none" /\ inflight = 1
    /\ nReqs = 0 /\ last = NoRequest /\ kept = NoRequest
    /\ calls = NoCalls /\ analyzeCalls = <<>>
    /\ mReqs = 0 /\ mLast = NoMetricsRequest

NextMux == MuxServeHTTP \/ MuxNextConn

SpecMux == InitMux /\ [][NextMux]_vars

---------------------------------------------------------------------------
\* The webhook handler installed by ServeAlerts (lines 174-216).

\* A Go map[string]string: nil, or a finite function from keys to values.
NilMap == [nil |-> TRUE, kv |-> <<>>]
MakeMap(f) == [nil |-> FALSE, kv |-> f]

\* v, ok := m[k]: reading a nil map is allowed and finds nothing.
MapGet(m, k) ==
    IF k \in DOMAIN m.kv THEN [ok |-> TRUE, val |-> m.kv[k]]
    ELSE [ok |-> FALSE, val |-> ""]

\* m[k] = v on a map that is not nil.
MapSet(m, k, v) ==
    [m EXCEPT !.kv = [x \in (DOMAIN m.kv) \cup {k} |-> IF x = k THEN v ELSE m.kv[x]]]

\* url.Values as parsed from the raw query: the key=value pairs in order.
Queries ==
    { <<>>,
      << <<"filters", "Pod">>, <<"backend", "openai">>, <<"language", "en">>,
         <<"filters", "Service">>, <<"annotation", "summary">>,
         <<"annotation", "other">> >> }

\* url.Values.Get(key): the first value of the key, "" when there is none.
ValuesGet(q, key) ==
    LET idx == {i \in 1..Len(q) : q[i][1] = key}
    IN  IF idx = {} THEN ""
        ELSE q[CHOOSE i \in idx : \A j \in idx : i <= j][2]

\* A variant of params[key] that yields the values last to first.
RECURSIVE ValuesAllReversed(_, _)
ValuesAllReversed(q, key) ==
    IF q = <<>> THEN <<>>
    ELSE IF Head(q)[1] = key THEN ValuesAllReversed(Tail(q), key) \o <<Head(q)[2]>>
    ELSE ValuesAllReversed(Tail(q), key)

\* params[key]: all the values of the key, in order.
RECURSIVE ValuesAll(_, _)
ValuesAll(q, key) ==
    IF q = <<>> THEN <<>>
    ELSE IF Head(q)[1] = key THEN <<Head(q)[2]>> \o ValuesAll(Tail(q), key)
    ELSE ValuesAll(Tail(q), key)

\* The label sets and annotation sets an alert of a request body may carry
\* (a field that is absent or null decodes to a nil map).
LabelSets ==
    { NilMap,
      MakeMap([k \in {"alertname"} |-> "a"]),
      MakeMap([k \in {"namespace"} |-> "ns1"]),
      MakeMap([k \in {"alertname", "namespace"} |-> IF k = "namespace" THEN "ns2" ELSE "a"]) }

AnnotationSets ==
    { NilMap,
      MakeMap([k \in {"summary", "other"} |-> IF k = "summary" THEN "old" ELSE "x"]) }

\* models.PostableAlert, as far as the handler uses it.
Alerts == [Labels : LabelSets, Annotations : AnnotationSets]

RECURSIVE SeqsUpTo(_, _)
SeqsUpTo(S, n) ==
    IF n = 0 THEN {<<>>}
    ELSE LET P == SeqsUpTo(S, n - 1)
         IN  P \cup {Append(s, x) : s \in {y \in P : Len(y) = n - 1}, x \in S}

\* A request body: bytes that json cannot decode into models.PostableAlerts,
\* or the encoding of a list of alerts.
Bodies ==
    {[malformed |-> TRUE, alerts |-> <<>>]}
      \cup {[malformed |-> FALSE, alerts |-> a] : a \in SeqsUpTo(Alerts, MaxAlerts)}

\* A decoder that reports no error and yields no alerts for bytes it cannot
\* decode.
DecodeLenient(body) ==
    [err |-> "nil", alerts |-> body.alerts]

\* json.NewDecoder(r.Body).Decode(&alerts)
Decode(body) ==
    IF body.malformed THEN [err |-> "ErrSyntax", alerts |-> <<>>]
    ELSE [err |-> "nil", alerts |-> body.alerts]

\* What s.AnalyzeHandler.Analyze may return: an error, or a response with a
\* list of results, each with its Details.
Details == {"d1", "d2"}
Responses ==
    {[err |-> "ErrAnalyze", Results |-> <<>>]}
      \cup {[err |-> "nil", Results |-> rs] :
              rs \in SeqsUpTo([Details : Details], MaxResults)}

\* fmt.Sprintf("<prefix>%s", err)
Sprintf(prefix, err) == <<prefix, err>>

\* http.ResponseWriter.Write: the first write sends the implicit status 200.
Write(h, bytes) ==
    [h EXCEPT !.body = Append(h.body, bytes),
              !.status = IF h.status = 0 THEN 200 ELSE h.status]

\* The handler returns: the server sends status 200 if nothing was written.
Return(h) ==
    [h EXCEPT !.pc = "done", !.status = IF h.status = 0 THEN 200 ELSE h.status]

\* A handler that has not been entered.
IdleCall ==
    [pc |-> "idle", params |-> <<>>, malformed |-> FALSE,
     analyzeRequest |-> [Backend |-> "", Language |-> "", Filters |-> <<>>,
                         Namespace |-> "", Nocache |-> FALSE, Explain |-> FALSE],
     decodeErr |-> "nil", decoded |-> <<>>, alerts |-> <<>>, annotation |-> "",
     i |-> 1, resps |-> <<>>, body |-> <<>>, status |-> 0]

\* Lines 176-198: the handler is entered with query q and the given body,
\* builds the AnalyzeRequest and decodes the body; a body that does not decode
\* ends the call with the error text as the response. Qs and Bs are the
\* queries and bodies the request is drawn from.
AlertsServeHTTPIn(c, Qs, Bs) ==
    /\ proc = "running" /\ alertmanagerServer = "listening"
    /\ calls[c].pc = "idle"
    /\ \E q \in Qs, body \in Bs :
         LET req == [Backend |-> ValuesGet(q, "backend"),
                     Language |-> ValuesGet(q, "language"),
                     Filters |-> ValuesAll(q, "filters"),
                     Namespace |-> "",
                     Nocache |-> TRUE, Explain |-> TRUE]
             d == Decode(body)
             h == [calls[c] EXCEPT !.params = q, !.malformed = body.malformed,
                                   !.analyzeRequest = req, !.decodeErr = d.err]
         IN  calls' = [calls EXCEPT ![c] =
                 IF d.err # "nil"
                 THEN Return(Write(h, Sprintf("decode alerts. err: ", d.err)))
                 ELSE IF d.alerts = <<>>
                 THEN Return([h EXCEPT !.annotation = ValuesGet(q, "annotation")])
                 ELSE [h EXCEPT !.pc = "loop", !.decoded = d.alerts,
                                !.alerts = d.alerts,
                                !.annotation = ValuesGet(q, "annotation")]]
    /\ UNCHANGED <<lifeVars, muxVars, analyzeCalls, metVars>>

AlertsServeHTTP(c) == AlertsServeHTTPIn(c, Queries, Bodies)

\* A variant of lines 202-204 on an AnalyzeRequest that all the calls of the
\* handler share: an alert without the label goes out with the namespace of
\* the request analysed last, by whichever call.
SetNamespaceShared(req, alert) ==
    LET ns == MapGet(alert.Labels, "namespace")
    IN  IF ns.ok THEN [req EXCEPT !.Namespace = ns.val]
        ELSE IF analyzeCalls = <<>> THEN req
        ELSE [req EXCEPT !.Namespace = analyzeCalls[Len(analyzeCalls)].req.Namespace]

\* Lines 202-204: the namespace label of the alert, when it has one, is stored
\* in the AnalyzeRequest shared by the alerts of the call.
SetNamespace(req, alert) ==
    LET ns == MapGet(alert.Labels, "namespace")
    IN  IF ns.ok THEN [req EXCEPT !.Namespace = ns.val] ELSE req

\* Lines 209-211: every result's Details is assigned to the annotation key, in
\* order; an assignment to an entry of a nil map panics.
RECURSIVE WriteResults(_, _, _)
WriteResults(m, key, results) ==
    IF results = <<>> THEN [panic |-> FALSE, m |-> m]
    ELSE IF m.nil THEN [panic |-> TRUE, m |-> m]
    ELSE WriteResults(MapSet(m, key, Head(results).Details), key, Tail(results))

\* Lines 205-208 going on with the next alert after a failed analysis.
AfterAnalyzeErrorContinue(h, err) ==
    LET w == Write(h, Sprintf("analyze. err: ", err))
    IN  IF h.i = Len(h.alerts) THEN Return(w) ELSE [w EXCEPT !.i = h.i + 1]

\* Lines 205-208 reporting a failed analysis with status 500.
AfterAnalyzeErrorStatus(h, err) ==
    Return([Write(h, Sprintf("analyze. err: ", err)) EXCEPT !.status = 500])

\* Lines 205-208: a failed analysis is written to the response and the
\* handler returns.
AfterAnalyzeError(h, err) ==
    Return(Write(h, Sprintf("analyze. err: ", err)))

\* Lines 201-213, one round of the loop: the namespace, the synchronous call
\* of Analyze with the shared request, and either the error response or the
\* annotations of this alert. A panic of the handler is recovered by
\* net/http, which drops the connection. Rs are the outcomes Analyze is
\* drawn from.
AlertsLoopIn(c, Rs) ==
    /\ proc = "running" /\ alertmanagerServer = "listening"
    /\ calls[c].pc = "loop"
    /\ LET h == calls[c]
           alert == h.alerts[h.i]
           req == SetNamespace(h.analyzeRequest, alert)
           h1 == [h EXCEPT !.analyzeRequest = req]
       IN  /\ analyzeCalls' = Append(analyzeCalls, [call |-> c, idx |-> h.i, req |-> req])
           /\ \E resp \in Rs :
                LET h2 == [h1 EXCEPT !.resps = Append(h.resps, resp)]
                    w == WriteResults(alert.Annotations, h.annotation, resp.Results)
                    h3 == [h2 EXCEPT !.alerts[h.i].Annotations = w.m]
                IN  calls' = [calls EXCEPT ![c] =
                        IF resp.err # "nil" THEN AfterAnalyzeError(h2, resp.err)
                        ELSE IF w.panic THEN [h2 EXCEPT !.pc = "panicked"]
                        ELSE IF h.i = Len(h.alerts) THEN Return(h3)
                        ELSE [h3 EXCEPT !.i = h.i + 1]]
    /\ UNCHANGED <<lifeVars, muxVars, metVars>>

AlertsLoop(c) == AlertsLoopIn(c, Responses)

---------------------------------------------------------------------------
\* The webhook specification: Serve has bound its port and set the handlers,
\* ServeAlerts is listening, and one webhook call is handled.

CallIds == {"c1"}

InitAlerts ==
    /\ proc = "running"
    /\ EnableHttp = FALSE
    /\ ConfigHandler = "set" /\ AnalyzeHandler = "set"
    /\ listener = "open"
    /\ servePc = "grpcServe" /\ serveRet = "none"
    /\ accepts = <<>> /\ shutdowns = <<>>
    /\ metricsServer = "nil" /\ metricsRet = "none"
    /\ alertmanagerServer = "listening" /\ alertsRet = "none"
    /\ gwErr = "none" /\ inflight = 0
    /\ nReqs = 0 /\ last = NoRequest /\ kept = NoRequest
    /\ calls = [c \in CallIds |-> IdleCall] /\ analyzeCalls = <<>>
    /\ mReqs = 0 /\ mLast = NoMetricsRequest

NextAlerts ==
    \/ \E c \in DOMAIN calls : AlertsServeHTTP(c)
    \/ \E c \in DOMAIN calls : AlertsLoop(c)

SpecAlerts == InitAlerts /\ [][NextAlerts]_vars

---------------------------------------------------------------------------
\* The specification of two webhook calls handled at the same time, each on
\* the goroutine net/http gives it, with requests that tell the calls apart.

PairQueries ==
    { << <<"backend", "openai">>, <<"filters", "Pod">>, <<"annotation", "summary">> >>,
      << <<"backend", "localai">>, <<"language", "de">>, <<"annotation", "other">> >> }

PairAnnotations ==
    MakeMap([k \in {"summary", "other"} |-> IF k = "summary" THEN "old" ELSE "x"])

PairBodies ==
    { [malformed |-> FALSE,
       alerts |-> << [Labels |-> MakeMap([k \in {"namespace"} |-> "ns1"]),
                      Annotations |-> PairAnnotations] >>],
      [malformed |-> FALSE,
       alerts |-> << [Labels |-> MakeMap([k \in {"namespace"} |-> "ns2"]),
                      Annotations |-> PairAnnotations],
                     [Labels |-> MakeMap([k \in {"alertname"} |-> "a"]),
                      Annotations |-> PairAnnotations] >>] }

PairResponses ==
    { [err |-> "ErrAnalyze", Results |-> <<>>],
      [err |-> "nil", Results |-> << [Details |-> "d1"] >>],
      [err |-> "nil", Results |-> << [Details |-> "d2"] >>] }

PairCallIds == {"c1", "c2"}

InitAlertsPair ==
    /\ proc = "running"
    /\ EnableHttp = FALSE
    /\ ConfigHandler = "set" /\ AnalyzeHandler = "set"
    /\ listener = "open"
    /\ servePc = "grpcServe" /\ serveRet = "none"
    /\ accepts = <<>> /\ shutdowns = <<>>
    /\ metricsServer = "nil" /\ metricsRet = "none"
    /\ alertmanagerServer = "listening" /\ alertsRet = "none"
    /\ gwErr = "none" /\ inflight = 0
    /\ nReqs = 0 /\ last = NoRequest /\ kept = NoRequest
    /\ calls = [c \in PairCallIds |-> IdleCall] /\ analyzeCalls = <<>>
    /\ mReqs = 0 /\ mLast = NoMetricsRequest

NextAlertsPair ==
    \/ \E c \in DOMAIN calls : AlertsServeHTTPIn(c, PairQueries, PairBodies)
    \/ \E c \in DOMAIN calls : AlertsLoopIn(c, PairResponses)

SpecAlertsPair == InitAlertsPair /\ [][NextAlertsPair]_vars

---------------------------------------------------------------------------
\* The specification of the three servers started side by side: the lifecycle
\* together with one webhook call, which may arrive as soon as ServeAlerts
\* listens, before or after Serve has bound its port.

InitServers ==
    /\ proc = "running"
    /\ EnableHttp \in BOOLEAN
    /\ ConfigHandler \in {"nil", "caller"} /\ AnalyzeHandler = ConfigHandler
    /\ listener = "nil"
    /\ servePc = "idle" /\ serveRet = "none"
    /\ accepts = <<>> /\ shutdowns = <<>>
    /\ metricsServer = "nil" /\ metricsRet = "none"
    /\ alertmanagerServer = "nil" /\ alertsRet = "none"
    /\ gwErr = "none" /\ inflight = 0
    /\ nReqs = 0 /\ last = NoRequest /\ kept = NoRequest
    /\ calls = [c \in CallIds |-> IdleCall] /\ analyzeCalls = <<>>
    /\ mReqs = 0 /\ mLast = NoMetricsRequest

NextServers ==
    \/ Next
    \/ \E c \in DOMAIN calls : AlertsServeHTTPIn(c, PairQueries, PairBodies)
    \/ \E c \in DOMAIN calls : AlertsLoopIn(c, PairResponses)

SpecServers == InitServers /\ [][NextServers]_vars

---------------------------------------------------------------------------
\* Properties of the multiplexer (SpecMux).

\* C1: every request handed to the multiplexer invokes exactly one delegate,
\* once: the RPC dispatcher if and only if the request is HTTP/2 and its
\* Content-Type holds the two tokens of "application/grpc" next to each other;
\* the fallback handler in every other case (HTTP/1.x with the marker, HTTP/2
\* without it, no Content-Type).
C1_ExactlyOneDelegate ==
    \A x \in {last, kept} :
      x.handled =>
        LET r == x.req
            hasType == "Content-Type" \in DOMAIN r.Header
            ct == IF hasType THEN r.Header["Content-Type"][1] ELSE <<>>
            marked == \E i \in 1..(Len(ct) - 1) :
                         ct[i] = "application/" /\ ct[i + 1] = "grpc"
        IN  /\ Len(x.invoked) = 1
            /\ (r.ProtoMajor = 2 /\ marked) => x.invoked = <<"grpcServer">>
            /\ ~(r.ProtoMajor = 2 /\ marked) => x.invoked = <<"otherHandler">>

\* An HTTP/2 request with the marker inside a longer Content-Type went to the
\* RPC dispatcher, and an HTTP/1.x request with the same header went to the
\* fallback handler.
C1_Witness ==
    /\ kept.handled /\ last.handled
    /\ kept.req.ProtoMajor = 2 /\ last.req.ProtoMajor = 1
    /\ kept.req.Header = [k \in {"Content-Type"} |-> << <<"grpc", "application/", "grpc">> >>]
    /\ last.req.Header = kept.req.Header
    /\ kept.invoked = <<"grpcServer">>
    /\ last.invoked = <<"otherHandler">>

\* C2: the delegate is chosen per request: two requests of one connection with
\* the same protocol version and the same Content-Type are routed alike,
\* whatever was routed between them.
C2_RoutedPerRequest ==
    (/\ kept.handled /\ last.handled
     /\ kept.req.ProtoMajor = last.req.ProtoMajor
     /\ HeaderGet(kept.req.Header, "Content-Type")
          = HeaderGet(last.req.Header, "Content-Type"))
    => kept.invoked = last.invoked

\* The first and the third request of a connection are the same fallback
\* request, and both went to the fallback handler.
C2_Witness ==
    /\ nReqs = 3
    /\ kept.handled /\ last.handled
    /\ kept.req = last.req
    /\ kept.req.ProtoMajor = 2
    /\ kept.req.Header = [k \in {"Content-Type"} |-> << <<"application/">> >>]
    /\ kept.invoked = <<"otherHandler">> /\ last.invoked = <<"otherHandler">>

---------------------------------------------------------------------------
\* Properties of the lifecycle (Spec).

\* C3: when the accept loop of Serve ends because Shutdown closed the
\* listener, Serve returns nil, in REST-gateway mode and in RPC-only mode; any
\* other error of the accept loop is returned.
C3_ShutdownEndsServeWithNil ==
    (servePc = "returned" /\ accepts # <<>>) =>
        /\ (accepts[Len(accepts)] = "ErrNetClosed"
              /\ \E i \in 1..Len(shutdowns) : shutdowns[i] = "nil")
             => serveRet = "nil"
        /\ accepts[Len(accepts)] = "ErrAccept" => serveRet = "ErrAccept"

\* C4: when a call of Shutdown returns, none of the primary listener, the
\* metrics server and the webhook server is open.
C4_ShutdownReleasesAll ==
    [][(Len(shutdowns') = Len(shutdowns) + 1 /\ shutdowns'[Len(shutdowns')] # "panic")
         => /\ listener' # "open"
            /\ metricsServer' # "listening"
            /\ alertmanagerServer' # "listening"]_vars

\* C5: once Serve has bound the listener, a call of Shutdown on the open
\* listener returns nil and closes it, a call on the closed listener returns
\* an error without a panic, the listener stays closed, and every Accept on
\* the closed listener fails with the closed-listener error.
C5_ShutdownIdempotent ==
    [][/\ (listener # "nil" /\ Len(shutdowns') = Len(shutdowns) + 1)
            => /\ listener' = "closed"
               /\ proc' = proc
               /\ shutdowns'[Len(shutdowns')]
                    = IF listener = "open" THEN "nil" ELSE "ErrNetClosed"
       /\ listener = "closed"
            => /\ listener' = "closed"
               /\ Len(accepts') = Len(accepts) + 1
                    => accepts'[Len(accepts')] = "ErrNetClosed"]_vars

\* Shutdown was called twice on a bound listener, and the accept loop has run
\* into the closed listener.
C5_Witness ==
    /\ shutdowns = <<"nil", "ErrNetClosed">>
    /\ listener = "closed"
    /\ proc = "running"
    /\ accepts # <<>> /\ accepts[Len(accepts)] = "ErrNetClosed"

\* C12: in REST-gateway mode a failed registration of either gateway handler
\* ends the process: Serve returns nothing to its caller and the listener is
\* never served.
C12_RegistrationFailureAborts ==
    gwErr # "none" =>
        /\ EnableHttp
        /\ proc = "exited"
        /\ serveRet = "none"
        /\ servePc \in {"registerConfig", "registerAnalyzer"}
        /\ accepts = <<>>

\* The registration of the analysis service failed after that of the
\* configuration service had succeeded.
C12_Witness ==
    /\ gwErr = "ErrRegister"
    /\ servePc = "registerAnalyzer"
    /\ proc = "exited"
    /\ listener = "open"

\* C13: when the port cannot be bound, Serve returns the bind error at once
\* and leaves the listener field and the two handler fields as they were;
\* it does not try again, and nothing is accepted or served.
C13_BindErrorLeavesConfig ==
    [][/\ (serveRet = "none" /\ serveRet' = "ErrBind")
            => /\ servePc = "idle" /\ servePc' = "returned"
               /\ listener' = listener
               /\ ConfigHandler' = ConfigHandler
               /\ AnalyzeHandler' = AnalyzeHandler
               /\ accepts' = <<>> /\ inflight' = 0
       /\ serveRet = "ErrBind"
            => /\ serveRet' = "ErrBind" /\ servePc' = "returned"
               /\ listener' = "nil"
               /\ accepts' = <<>> /\ inflight' = 0]_vars

\* Serve has returned the bind error on a Config whose handlers the caller
\* had set.
C13_Witness ==
    /\ serveRet = "ErrBind" /\ servePc = "returned"
    /\ ConfigHandler = "caller" /\ AnalyzeHandler = "caller"
    /\ listener = "nil"

\* The accept loop of srv.Serve or grpcServer.Serve is running.
DispatcherAccepting == servePc \in {"httpServe", "grpcServe"}

\* C14: in REST-gateway mode the RPC dispatcher is accepting connections
\* before the registration calls of the gateway complete.
C14_AcceptingBeforeRegistered ==
    [][(EnableHttp /\ servePc = "registerAnalyzer" /\ servePc' = "httpServe")
         => DispatcherAccepting]_vars

\* C16: a call of Shutdown leaves the requests in flight as they are: it
\* neither cancels them nor waits for them.
C16_ShutdownLeavesInflight ==
    [][Len(shutdowns') = Len(shutdowns) + 1
         => /\ inflight' = inflight
            /\ accepts' = accepts]_vars

\* Shutdown has returned and closed the listener while a request accepted
\* before it is still being handled.
C16_Witness ==
    /\ shutdowns = <<"nil">>
    /\ listener = "closed"
    /\ accepts = <<"conn">>
    /\ inflight = 1
    /\ proc = "running"

\* C18: Shutdown returns without crashing the process in every state of the
\* Config, also when no listener has been bound.
C18_ShutdownNeverPanics ==
    /\ proc # "crashed"
    /\ \A i \in 1..Len(shutdowns) : shutdowns[i] # "panic"

---------------------------------------------------------------------------
\* Properties of the metrics handler (SpecMetrics).

\* C11: the response of the metrics handler is decided by the path: 200 with
\* an empty body for "/healthz", the exposition handler for "/metrics", 404
\* for every other path, whatever the method, the earlier requests and the
\* state of the other servers.
C11_MetricsByPath ==
    mLast.handled =>
        LET path == mLast.req.Path
            resp == mLast.resp
        IN  /\ path = "/healthz"
                 => resp.status = 200 /\ resp.body = <<>> /\ resp.delegate = "none"
            /\ path = "/metrics" => resp.delegate = "promhttp"
            /\ path \notin {"/healthz", "/metrics"}
                 => resp.status = 404 /\ resp.delegate = "none"

\* A POST of the liveness path was answered with 200 after other requests,
\* with the primary listener closed and the webhook server stopped.
C11_Witness ==
    /\ mLast.handled /\ mReqs = 3
    /\ mLast.req = [Method |-> "POST", Path |-> "/healthz"]
    /\ mLast.resp.status = 200
    /\ listener = "closed"
    /\ alertmanagerServer = "closed"

---------------------------------------------------------------------------
\* Properties of the webhook handler (SpecAlerts).

\* The requests passed to Analyze by call c, in order.
AnalyzeCallsOf(c) == SelectSeq(analyzeCalls, LAMBDA e : e.call = c)

\* C6: the AnalyzeRequest passed for an alert has the alert's own namespace
\* label as its namespace, and an empty namespace when the alert has no such
\* label, wherever the alert stands in the batch.
C6_OwnNamespace ==
    \A n \in 1..Len(analyzeCalls) :
      LET e == analyzeCalls[n]
          labels == calls[e.call].decoded[e.idx].Labels
      IN  e.req.Namespace
            = IF "namespace" \in DOMAIN labels.kv THEN labels.kv["namespace"] ELSE ""

\* C7: the alerts of a call are analysed in batch order, one call each, and
\* the first failed analysis ends the call: with the failure at alert k,
\* Analyze was called once for each of the alerts 1..k and for no other, every
\* alert before k holds the Details of the last of its results under the
\* annotation key (and is unchanged when it had no results), the alerts from k
\* on are as decoded, and the response body is the analysis error text.
C7_FirstFailureAborts ==
    \A c \in DOMAIN calls :
      LET h == calls[c]
          made == AnalyzeCallsOf(c)
          failed == {j \in 1..Len(h.resps) : h.resps[j].err # "nil"}
      IN  /\ Len(made) = Len(h.resps)
          /\ \A j \in 1..Len(made) : made[j].idx = j
          /\ failed # {} =>
               LET k == CHOOSE j \in failed : \A m \in failed : j <= m
               IN  /\ Len(h.resps) = k
                   /\ h.pc = "done"
                   /\ \A j \in 1..(k - 1) :
                        LET rs == h.resps[j].Results
                            was == h.decoded[j].Annotations
                            now == h.alerts[j].Annotations
                        IN  IF rs = <<>> THEN now = was
                            ELSE /\ ~now.nil
                                 /\ DOMAIN now.kv = (DOMAIN was.kv) \cup {h.annotation}
                                 /\ now.kv[h.annotation] = rs[Len(rs)].Details
                                 /\ \A x \in (DOMAIN was.kv) \ {h.annotation} :
                                      now.kv[x] = was.kv[x]
                   /\ \A j \in k..Len(h.decoded) : h.alerts[j] = h.decoded[j]
                   /\ h.body = << <<"analyze. err: ", h.resps[k].err>> >>

\* A batch of two alerts whose first analysis returned results, which were
\* written, and whose second analysis failed.
C7_Witness ==
    \E c \in DOMAIN calls :
      LET h == calls[c]
      IN  /\ Len(h.decoded) = 2 /\ Len(h.resps) = 2
          /\ h.resps[1].err = "nil" /\ h.resps[1].Results # <<>>
          /\ h.resps[2].err # "nil"
          /\ h.alerts[1] # h.decoded[1]
          /\ h.alerts[2] = h.decoded[2]
          /\ h.body # <<>>

\* C8: a body that cannot be decoded is answered with the decode error text;
\* Analyze is not called for it and no annotation is written.
C8_DecodeFailure ==
    \A c \in DOMAIN calls :
      LET h == calls[c]
      IN  (h.pc # "idle" /\ h.malformed) =>
            /\ h.pc = "done"
            /\ Len(h.body) = 1
            /\ h.body[1][1] = "decode alerts. err: "
            /\ h.body[1][2] # "nil"
            /\ AnalyzeCallsOf(c) = <<>>
            /\ h.resps = <<>>
            /\ h.alerts = <<>>

\* A call with an undecodable body has been answered.
C8_Witness ==
    \E c \in DOMAIN calls :
      /\ calls[c].malformed /\ calls[c].pc = "done"
      /\ calls[c].body = << <<"decode alerts. err: ", "ErrSyntax">> >>
      /\ calls[c].params # <<>>

\* C9: after a successful analysis of an alert, its annotations hold the
\* Details of the last result under the annotation key, every other key is
\* as it was decoded, and a response without results leaves them unchanged.
C9_AnnotationWritten ==
    \A c \in DOMAIN calls :
      LET h == calls[c]
      IN  \A j \in 1..Len(h.resps) :
            h.resps[j].err = "nil" =>
              LET rs == h.resps[j].Results
                  was == h.decoded[j].Annotations
                  now == h.alerts[j].Annotations
              IN  IF rs = <<>> THEN now = was
                  ELSE /\ h.annotation \in DOMAIN now.kv
                       /\ now.kv[h.annotation] = rs[Len(rs)].Details
                       /\ \A x \in (DOMAIN was.kv) \ {h.annotation} :
                            x \in DOMAIN now.kv /\ now.kv[x] = was.kv[x]

\* C10: the body of the response of a call is empty exactly when its request
\* body decoded and none of its analyses failed, and is otherwise one error
\* text; the handler never sets a status, so a failed call is answered with
\* the status of a successful one.
C10_ErrorInBodyOnly ==
    \A c \in DOMAIN calls :
      LET h == calls[c]
          failed == {j \in 1..Len(h.resps) : h.resps[j].err # "nil"}
      IN  /\ h.status \in {0, 200}
          /\ h.pc = "done" =>
               /\ h.status = 200
               /\ h.body = <<>> <=> (~h.malformed /\ failed = {})
               /\ h.body # <<>> =>
                    /\ Len(h.body) = 1
                    /\ h.body[1][1] \in {"decode alerts. err: ", "analyze. err: "}

\* A call whose analysis failed has been answered with the error text and
\* status 200.
C10_Witness ==
    \E c \in DOMAIN calls :
      /\ calls[c].pc = "done"
      /\ calls[c].body = << <<"analyze. err: ", "ErrAnalyze">> >>
      /\ calls[c].status = 200
      /\ Len(calls[c].resps) = 2

\* C17: every AnalyzeRequest passed to Analyze has Nocache and Explain true,
\* the first "backend" and the first "language" value of the query of its own
\* HTTP request ("" when there is none), and all the "filters" values of that
\* query in their order.
C17_RequestFromQuery ==
    \A n \in 1..Len(analyzeCalls) :
      LET e == analyzeCalls[n]
          q == calls[e.call].params
          First(key, v) ==
              \/ v = "" /\ \A i \in 1..Len(q) : q[i][1] # key
              \/ \E i \in 1..Len(q) :
                   /\ q[i] = <<key, v>>
                   /\ \A j \in 1..(i - 1) : q[j][1] # key
          fs == SelectSeq(q, LAMBDA kv : kv[1] = "filters")
      IN  /\ e.req.Nocache = TRUE /\ e.req.Explain = TRUE
          /\ First("backend", e.req.Backend)
          /\ First("language", e.req.Language)
          /\ e.req.Filters = [i \in 1..Len(fs) |-> fs[i][2]]

\* The second alert of a batch was analysed with the two filters of the query
\* in their order.
C17_Witness ==
    /\ Len(analyzeCalls) = 2
    /\ analyzeCalls[2].idx = 2
    /\ analyzeCalls[2].req.Filters = <<"Pod", "Service">>
    /\ analyzeCalls[2].req.Backend = "openai"
    /\ analyzeCalls[2].req.Language = "en"
    /\ analyzeCalls[2].req.Nocache /\ analyzeCalls[2].req.Explain

\* C19: the handler returns for every batch that decoded, also when an alert
\* has no annotations map or no labels map and the analysis returns results.
C19_HandlerCompletes ==
    \A c \in DOMAIN calls : calls[c].pc # "panicked"

---------------------------------------------------------------------------
\* Properties of the servers run side by side (SpecServers).

\* C15: no field of the Config that a request handler reads is written by
\* Serve, ServeMetrics or ServeAlerts while a request is being handled: the
\* handler fields do not change while a webhook call is in its loop, where it
\* reads s.AnalyzeHandler.
C15_NoWriteWhileHandling ==
    [][(AnalyzeHandler' # AnalyzeHandler \/ ConfigHandler' # ConfigHandler)
         => \A c \in DOMAIN calls : calls[c].pc # "loop"]_vars

---------------------------------------------------------------------------
\* Properties of two webhook calls at the same time (SpecAlertsPair).

\* C20: whatever the interleaving of two webhook calls, every AnalyzeRequest
\* has the query parameters of its own HTTP request and a namespace that is
\* empty or a namespace label of an alert of its own batch up to the one
\* analysed, and the alerts of a call differ from its request body only under
\* the annotation key of its own query, by a Details of its own responses.
C20_CallsIsolated ==
    /\ \A n \in 1..Len(analyzeCalls) :
         LET e == analyzeCalls[n]
             h == calls[e.call]
             own == {h.decoded[j].Labels.kv["namespace"] :
                       j \in {x \in 1..e.idx : "namespace" \in DOMAIN h.decoded[x].Labels.kv}}
         IN  /\ e.req.Backend = ValuesGet(h.params, "backend")
             /\ e.req.Language = ValuesGet(h.params, "language")
             /\ e.req.Filters = ValuesAll(h.params, "filters")
             /\ e.req.Namespace \in own \cup {""}
    /\ \A c \in DOMAIN calls :
         LET h == calls[c]
         IN  /\ Len(h.alerts) = Len(h.decoded)
             /\ \A j \in 1..Len(h.alerts) :
                  LET was == h.decoded[j].Annotations
                      now == h.alerts[j].Annotations
                  IN  /\ h.alerts[j].Labels = h.decoded[j].Labels
                      /\ now # was =>
                           /\ j <= Len(h.resps)
                           /\ DOMAIN now.kv = (DOMAIN was.kv) \cup {h.annotation}
                           /\ \A x \in (DOMAIN was.kv) \ {h.annotation} :
                                now.kv[x] = was.kv[x]
                           /\ \E i \in 1..Len(h.resps[j].Results) :
                                now.kv[h.annotation] = h.resps[j].Results[i].Details

\* The analyses of two calls with different queries and batches interleave:
\* the second call analyses its two alerts around the analysis of the first.
C20_Witness ==
    /\ Len(analyzeCalls) = 3
    /\ analyzeCalls[1].call = "c2" /\ analyzeCalls[2].call = "c1"
    /\ analyzeCalls[3].call = "c2"
    /\ analyzeCalls[2].req.Namespace = "ns1" /\ analyzeCalls[2].req.Backend = "openai"
    /\ analyzeCalls[3].req.Namespace = "ns2" /\ analyzeCalls[3].req.Backend = "localai"
    /\ calls["c1"].alerts[1].Annotations.kv["summary"] = "d1"
    /\ calls["c2"].alerts[1].Annotations.kv["other"] = "d2"

====
